---- MODULE Spec2Model ----
(***************************************************************************)
(* Storage-only type placement pass of sway-core                           *)
(* (semantic_analysis/storage_only_types.rs).                              *)
(*                                                                         *)
(* The pass is a pure, synchronous walk over the typed AST.  Its state is  *)
(* the call in progress (op, "none" between calls), the argument it was    *)
(* given (arg) and the CompileResult it returned (res).  Every function of the   *)
(* file is an operator computed the way the code computes it: loops are    *)
(* index recursions with the warnings/errors accumulators of the code,     *)
(* and each check!(...) is a merge followed by the recovery expression.    *)
(*                                                                         *)
(* Declaration handles (DeclId) are modelled by the declaration they       *)
(* resolve to: decl_engine.get_*(decl_id) is the record itself.            *)
(***************************************************************************)
EXTENDS Integers, Sequences, FiniteSets, TLC

VARIABLES op, arg, res

vars == <<op, arg, res>>

\* Bounds of the inputs.
MaxMembers == 2
MaxNodes == 2
MaxItems == 3

RECURSIVE expr_validate(_)
RECURSIVE expr_list_loop(_, _, _)
RECURSIVE decl_validate(_)
RECURSIVE ast_node_validate(_)
RECURSIVE validate_const_decl(_)
RECURSIVE validate_fn_decl(_)
RECURSIVE validate_decls_for_storage_only_types_in_codeblock(_)

----------------------------------------------------------------------------
(* Type Resolver (collaborator).  Handles are indices of the table; a     *)
(* handle is interned, so one handle stands for one structural             *)
(* description.  inner lists the handles of the transitively nested        *)
(* component types in the resolver's enumeration order.                    *)
TypeTable ==
  << [name |-> "u64", storage_only |-> FALSE, unknown |-> FALSE, inner |-> <<>>],
     [name |-> "StorageVec<u64>", storage_only |-> TRUE, unknown |-> FALSE,
      inner |-> <<1>>],
     [name |-> "StorageMap<u64, StorageVec<u64>>", storage_only |-> TRUE,
      unknown |-> FALSE, inner |-> <<1, 2>>],
     [name |-> "(u64, StorageMap<u64, StorageVec<u64>>)", storage_only |-> FALSE,
      unknown |-> FALSE, inner |-> <<1, 2, 3>>],
     [name |-> "unknown", storage_only |-> FALSE, unknown |-> TRUE, inner |-> <<>>],
     [name |-> "{unknown}", storage_only |-> FALSE, unknown |-> FALSE,
      inner |-> <<>>] >>

TypeIds == 1..Len(TypeTable)

\* TypeInfo::ErrorRecovery, the error placeholder.
ErrorRecovery == CHOOSE t \in TypeIds : TypeTable[t].name = "{unknown}"

\* engines.help_out(ty).to_string()
help_out(ty) == TypeTable[ty].name

\* ty_engine.is_type_info_storage_only(decl_engine, &ty)
is_type_info_storage_only(ty) == TypeTable[ty].storage_only

\* ty_engine.to_typeinfo(ty, &span).map_err(CompileError::from): the
\* description on success, the resolution error at the given span otherwise.
to_typeinfo(ty, span) ==
  IF TypeTable[ty].unknown
  THEN [value |-> <<>>,
        error |-> <<[kind |-> "UnknownType", ty |-> "", span |-> span]>>]
  ELSE [value |-> <<ty>>, error |-> <<>>]

\* type_info.extract_nested_types(engines): the nested component types,
\* then the type itself.
extract_nested_types(type_info) == Append(TypeTable[type_info].inner, type_info)

\* ty.eq(&type_info, engines): structural equality of two descriptions.
type_eq(a, b) == TypeTable[a].name = TypeTable[b].name

----------------------------------------------------------------------------
(* CompileResult: value is <<>> for None and <<v>> for Some(v).           *)
Unit == "()"

ok(value, warnings, errors) ==
  [value |-> <<value>>, warnings |-> warnings, errors |-> errors]

err(warnings, errors) ==
  [value |-> <<>>, warnings |-> warnings, errors |-> errors]

\* CompileResult::from(Result<T, CompileError>)
CompileResultFrom(r) ==
  IF r.error = <<>>
  THEN [value |-> r.value, warnings |-> <<>>, errors |-> <<>>]
  ELSE err(<<>>, r.error)

\* The local accumulators `warnings` and `errors` of a function.
NoDiagnostics == [warnings |-> <<>>, errors |-> <<>>]

Acc(c) == [warnings |-> c.warnings, errors |-> c.errors]

\* check!(r, recovery, warnings, errors): the diagnostics of r are appended
\* to the accumulators acc; the caller takes its recovery expression exactly
\* when the value of the returned record is <<>>.
check(r, acc) ==
  [value |-> r.value, warnings |-> acc.warnings \o r.warnings,
   errors |-> acc.errors \o r.errors]

Failed(c) == c.value = <<>>

\* ok((), warnings, errors)
ok_unit(acc) == ok(Unit, acc.warnings, acc.errors)

\* if errors.is_empty() { ok((), warnings, errors) } else { err(warnings, errors) }
ok_if_no_errors_always_ok(acc) == ok(Unit, acc.warnings, acc.errors)

ok_if_no_errors(acc) ==
  IF acc.errors = <<>> THEN ok(Unit, acc.warnings, acc.errors)
  ELSE err(acc.warnings, acc.errors)

----------------------------------------------------------------------------
(* check_type                                                              *)

RECURSIVE check_type_loop_no_skip(_, _, _, _, _, _)
check_type_loop_no_skip(nested_types, i, type_info, span, ignore_self, errors) ==
  IF i > Len(nested_types) THEN errors
  ELSE LET ty == nested_types[i] IN
       IF is_type_info_storage_only(ty)
       THEN check_type_loop_no_skip(nested_types, i + 1, type_info, span, ignore_self,
              Append(errors, [kind |-> "InvalidStorageOnlyTypeDecl",
                              ty |-> help_out(ty), span |-> span]))
       ELSE check_type_loop_no_skip(nested_types, i + 1, type_info, span, ignore_self,
                                    errors)

RECURSIVE check_type_loop(_, _, _, _, _, _)
check_type_loop(nested_types, i, type_info, span, ignore_self, errors) ==
  IF i > Len(nested_types) THEN errors
  ELSE LET ty == nested_types[i] IN
       IF ignore_self /\ type_eq(ty, type_info)
       THEN check_type_loop(nested_types, i + 1, type_info, span, ignore_self, errors)
       ELSE IF is_type_info_storage_only(ty)
       THEN check_type_loop(nested_types, i + 1, type_info, span, ignore_self,
              Append(errors, [kind |-> "InvalidStorageOnlyTypeDecl",
                              ty |-> help_out(ty), span |-> span]))
       ELSE check_type_loop(nested_types, i + 1, type_info, span, ignore_self, errors)

check_type_fatal_resolution(ty, span, ignore_self) ==
  LET c == check(CompileResultFrom(to_typeinfo(ty, span)), NoDiagnostics)
  IN IF Failed(c) THEN err(c.warnings, c.errors)
     ELSE ok(Unit, c.warnings,
             check_type_loop(extract_nested_types(c.value[1]), 1, c.value[1], span,
                             ignore_self, c.errors))

check_type(ty, span, ignore_self) ==
  LET c == check(CompileResultFrom(to_typeinfo(ty, span)), NoDiagnostics)
      type_info == IF Failed(c) THEN ErrorRecovery ELSE c.value[1]
      nested_types == extract_nested_types(type_info)
  IN ok(Unit, c.warnings,
        check_type_loop(nested_types, 1, type_info, span, ignore_self, c.errors))

----------------------------------------------------------------------------
(* Expression validator.  An expression is a record                       *)
(*   [kind, return_type, span, subs, body]                                 *)
(* where subs are its sub-expressions in source order (an absent optional  *)
(* operand is simply missing) and body the nodes of its code block.        *)
(* check(B, check(A, acc)) is check!(A, ..) followed by check!(B, ..).     *)

LeafKinds ==
  {"Literal", "VariableExpression", "FunctionParameter", "AsmExpression",
   "StorageAccess", "AbiName", "Break", "Continue"}

\* for f in ... { check!(expr_validate(f), continue, ...) }
ListKinds ==
  {"FunctionApplication", "IntrinsicFunction", "Tuple", "Array",
   "StructExpression"}

\* check!(expr_validate(e), (), ...) for each operand present, in order
OperandKinds ==
  {"LazyOperator", "ArrayIndex", "MatchExp", "IfExp", "StructFieldAccess",
   "TupleElemAccess", "AbiCast", "EnumTag", "UnsafeDowncast",
   "EnumInstantiation", "Return"}

ReassignmentKinds == {"Reassignment", "StorageReassignment"}

expr_list_loop(exprs, i, acc) ==
  IF i > Len(exprs) THEN acc
  ELSE expr_list_loop(exprs, i + 1, Acc(check(expr_validate(exprs[i]), acc)))

expr_validate(expr) ==
  ok_unit(
    CASE expr.kind \in LeafKinds -> NoDiagnostics
      [] expr.kind \in ListKinds \cup OperandKinds ->
           expr_list_loop(expr.subs, 1, NoDiagnostics)
      [] expr.kind = "CodeBlock" ->
           Acc(check(validate_decls_for_storage_only_types_in_codeblock(expr.body),
                     NoDiagnostics))
      [] expr.kind = "WhileLoop" ->
           Acc(check(validate_decls_for_storage_only_types_in_codeblock(expr.body),
                     check(expr_validate(expr.subs[1]), NoDiagnostics)))
      [] expr.kind \in ReassignmentKinds ->
           Acc(check(expr_validate(expr.subs[1]),
                     check(check_type(expr.subs[1].return_type, expr.span, FALSE),
                           NoDiagnostics))))

----------------------------------------------------------------------------
(* Declaration validator.  The arms of the match yield                     *)
(*   [ret, warnings, errors]                                               *)
(* where ret is <<r>> when the arm executed `return r` and <<>> otherwise. *)

Fall(acc) == [ret |-> <<>>, warnings |-> acc.warnings, errors |-> acc.errors]

Return(r) == [ret |-> <<r>>, warnings |-> r.warnings, errors |-> r.errors]

\* check!(.., return err(warnings, errors), warnings, errors)
return_err_if_failed(c) ==
  IF Failed(c) THEN Return(err(c.warnings, c.errors)) ELSE Fall(c)

\* enum_decl.expect_variant_from_name(variant_name)
expect_variant_from_name(variants, variant_name, span) ==
  IF \E i \in 1..Len(variants) : variants[i].name = variant_name
  THEN ok(variants[CHOOSE i \in 1..Len(variants) :
                     /\ variants[i].name = variant_name
                     /\ \A j \in 1..(i - 1) : variants[j].name # variant_name],
          <<>>, <<>>)
  ELSE err(<<>>, <<[kind |-> "UnknownEnumVariant", ty |-> "", span |-> span]>>)

enum_variant_arm(c1) ==
  IF Failed(c1) THEN Return(err(c1.warnings, c1.errors))
  ELSE Fall(check(check_type(c1.value[1].type_id, c1.value[1].span, FALSE), Acc(c1)))

RECURSIVE impl_items_loop(_, _, _)

impl_constant_item_continue(c, items, i) == impl_items_loop(items, i + 1, Acc(c))

\* ty::TyImplItem::Constant: the constant has been checked into c
impl_constant_item(c, items, i) ==
  IF Failed(c) THEN Return(err(c.warnings, c.errors))
  ELSE impl_items_loop(items, i + 1, Acc(c))

impl_items_loop(items, i, acc) ==
  IF i > Len(items) THEN Fall(acc)
  ELSE IF items[i].item = "Fn"
  THEN impl_items_loop(items, i + 1, Acc(check(validate_fn_decl(items[i].decl), acc)))
  ELSE impl_constant_item(check(validate_const_decl(items[i].decl), acc), items, i)

RECURSIVE struct_fields_loop(_, _, _)
struct_fields_loop(fields, i, acc) ==
  IF i > Len(fields) THEN acc
  ELSE struct_fields_loop(fields, i + 1,
         Acc(check(check_type(fields[i].type_id, fields[i].span, FALSE), acc)))

RECURSIVE enum_variants_loop(_, _, _)
enum_variants_loop(variants, i, acc) ==
  IF i > Len(variants) THEN acc
  ELSE enum_variants_loop(variants, i + 1,
         Acc(check(check_type(variants[i].type_id, variants[i].span, FALSE), acc)))

RECURSIVE storage_fields_loop_no_ignore(_, _, _)
storage_fields_loop_no_ignore(fields, i, acc) ==
  IF i > Len(fields) THEN acc
  ELSE storage_fields_loop_no_ignore(fields, i + 1,
         Acc(check(check_type(fields[i].type_id, fields[i].name_span, FALSE), acc)))

RECURSIVE storage_fields_loop(_, _, _)
storage_fields_loop(fields, i, acc) ==
  IF i > Len(fields) THEN acc
  ELSE storage_fields_loop(fields, i + 1,
         Acc(check(check_type(fields[i].type_id, fields[i].name_span, TRUE), acc)))

\* the end of decl_validate: the early return, or the result by errors
decl_result(arm) ==
  IF arm.ret # <<>> THEN arm.ret[1] ELSE ok_if_no_errors(Acc(arm))

decl_validate(decl) ==
  decl_result(
    CASE decl.kind = "VariableDecl" ->
           Fall(check(expr_validate(decl.body),
                      check(check_type(decl.body.return_type, decl.name_span, FALSE),
                            NoDiagnostics)))
      [] decl.kind = "ConstantDecl" ->
           return_err_if_failed(check(validate_const_decl(decl.decl), NoDiagnostics))
      [] decl.kind = "FunctionDecl" ->
           return_err_if_failed(check(validate_fn_decl(decl.decl), NoDiagnostics))
      [] decl.kind \in {"AbiDecl", "TraitDecl"} -> Fall(NoDiagnostics)
      [] decl.kind = "ImplTrait" -> impl_items_loop(decl.items, 1, NoDiagnostics)
      [] decl.kind = "StructDecl" ->
           Fall(struct_fields_loop(decl.fields, 1, NoDiagnostics))
      [] decl.kind = "EnumDecl" ->
           Fall(enum_variants_loop(decl.variants, 1, NoDiagnostics))
      [] decl.kind = "EnumVariantDecl" ->
           enum_variant_arm(check(expect_variant_from_name(decl.variants,
                                    decl.variant_name, decl.variant_name_span),
                                  NoDiagnostics))
      [] decl.kind = "StorageDecl" ->
           Fall(storage_fields_loop(decl.fields, 1, NoDiagnostics))
      [] decl.kind = "TypeAliasDecl" ->
           Fall(check(check_type(decl.ty, decl.span, FALSE), NoDiagnostics))
      [] decl.kind \in {"GenericTypeForFunctionScope", "ErrorRecovery"} ->
           Fall(NoDiagnostics))

\* A constant declaration is [value, span]: value is <<>> or <<expr>>, span
\* is call_path.suffix.span().
validate_const_decl(decl) ==
  ok_if_no_errors(
    IF decl.value # <<>>
    THEN Acc(check(expr_validate(decl.value[1]),
                   check(check_type(decl.value[1].return_type, decl.span, FALSE),
                         NoDiagnostics)))
    ELSE NoDiagnostics)

RECURSIVE fn_params_loop_stop(_, _, _)
fn_params_loop_stop(parameters, i, acc) ==
  IF i > Len(parameters) \/ acc.errors # <<>> THEN acc
  ELSE IF ~parameters[i].is_self
  THEN fn_params_loop_stop(parameters, i + 1,
         Acc(check(check_type(parameters[i].type_id, parameters[i].span, FALSE), acc)))
  ELSE fn_params_loop_stop(parameters, i + 1, acc)

RECURSIVE fn_params_loop(_, _, _)
fn_params_loop(parameters, i, acc) ==
  IF i > Len(parameters) THEN acc
  ELSE IF ~parameters[i].is_self
  THEN fn_params_loop(parameters, i + 1,
         Acc(check(check_type(parameters[i].type_id, parameters[i].span, FALSE), acc)))
  ELSE fn_params_loop(parameters, i + 1, acc)

\* the return-type check has been checked into c: return err(..) on failure,
\* ok((), warnings, errors) otherwise
fn_return_type_checked(c) ==
  IF Failed(c) THEN err(c.warnings, c.errors) ELSE ok(Unit, c.warnings, c.errors)

\* A function declaration is [body, parameters, return_type].
validate_fn_decl(decl) ==
  fn_return_type_checked(
    check(check_type(decl.return_type.type_id, decl.return_type.span, FALSE),
          fn_params_loop(decl.parameters, 1,
            Acc(check(validate_decls_for_storage_only_types_in_codeblock(decl.body),
                      NoDiagnostics)))))

----------------------------------------------------------------------------
(* AST nodes and code blocks.  A node is [node, content].                  *)

ast_node_validate(x) ==
  CASE x.node \in {"Expression", "ImplicitReturnExpression"} ->
         expr_validate(x.content)
    [] x.node = "Declaration" -> decl_validate(x.content)
    [] x.node = "SideEffect" -> ok(Unit, <<>>, <<>>)

validate_decls_for_storage_only_types_in_ast(ast_n) == ast_node_validate(ast_n)

RECURSIVE codeblock_loop(_, _, _)

codeblock_node_checked_stop(c, contents, i) ==
  IF Failed(c) THEN Acc(c) ELSE codeblock_loop(contents, i + 1, Acc(c))

\* check!(ast_node_validate(..), continue, ..): the node has been checked
\* into c
codeblock_node_checked(c, contents, i) == codeblock_loop(contents, i + 1, Acc(c))

codeblock_loop(contents, i, acc) ==
  IF i > Len(contents) THEN acc
  ELSE codeblock_node_checked(check(ast_node_validate(contents[i]), acc), contents, i)

validate_decls_for_storage_only_types_in_codeblock(cb) ==
  ok_unit(codeblock_loop(cb, 1, NoDiagnostics))

----------------------------------------------------------------------------
(* Inputs: typed ASTs built over the type table.  A span is a number that  *)
(* identifies the position of the syntax it belongs to.                    *)

TypeNamed(n) == CHOOSE t \in TypeIds : TypeTable[t].name = n

SeqsUpTo(S, n) == UNION {[1..k -> S] : k \in 0..n}

Spans == {1, 2}

\* Where the spans of each kind of syntax start; the spans of the members of
\* a list follow one another.
SpanBase ==
  [param |-> 100, return_type |-> 200, field |-> 300, variant |-> 400,
   field_name |-> 500, variable_name |-> 600, lhs_base_name |-> 700,
   storage_reassignment |-> 800, const_name |-> 900, type_alias |-> 1000,
   variant_name |-> 1100]

ParamSpan(i) == SpanBase.param + i
ReturnSpan == SpanBase.return_type
FieldSpan(i) == SpanBase.field + i
VariantSpan(i) == SpanBase.variant + i
FieldNameSpan(i) == SpanBase.field_name + i
VarNameSpan == SpanBase.variable_name
LhsSpan == SpanBase.lhs_base_name
StorageReassignmentSpan == SpanBase.storage_reassignment
ConstSpan == SpanBase.const_name
AliasSpan == SpanBase.type_alias
VariantNameSpan == SpanBase.variant_name

Expr(kind, return_type, span, subs, body) ==
  [kind |-> kind, return_type |-> return_type, span |-> span, subs |-> subs,
   body |-> body]

Literal(t) == Expr("Literal", t, 0, <<>>, <<>>)

Reassignment(rhs) == Expr("Reassignment", TypeNamed("u64"), LhsSpan, <<rhs>>, <<>>)

StorageReassignment(rhs) ==
  Expr("StorageReassignment", TypeNamed("u64"), StorageReassignmentSpan, <<rhs>>, <<>>)

Node(node, content) == [node |-> node, content |-> content]

SideEffect == Node("SideEffect", [kind |-> "SideEffect"])

VariableDecl(body) == [kind |-> "VariableDecl", name_span |-> VarNameSpan, body |-> body]

FnDecl(body, params, rt) ==
  [body |-> body,
   parameters |-> [i \in 1..Len(params) |->
                     [type_id |-> params[i][1], is_self |-> params[i][2],
                      span |-> ParamSpan(i)]],
   return_type |-> [type_id |-> rt, span |-> ReturnSpan]]

ConstDecl(value) == [value |-> value, span |-> ConstSpan]

StructDecl(tys) ==
  [kind |-> "StructDecl",
   fields |-> [i \in 1..Len(tys) |-> [type_id |-> tys[i], span |-> FieldSpan(i)]]]

Variants(tys) ==
  [i \in 1..Len(tys) |->
     [name |-> i, type_id |-> tys[i], span |-> VariantSpan(i)]]

StorageDecl(tys) ==
  [kind |-> "StorageDecl",
   fields |-> [i \in 1..Len(tys) |->
                 [type_id |-> tys[i], name_span |-> FieldNameSpan(i),
                  span |-> FieldSpan(i)]]]

\* Operands of composite expressions.
SubExprs ==
  {Literal(TypeNamed("u64")),
   Expr("Break", TypeNamed("u64"), 0, <<>>, <<>>),
   Reassignment(Literal(TypeNamed("StorageVec<u64>"))),
   Reassignment(Literal(TypeNamed("unknown"))),
   StorageReassignment(Literal(TypeNamed("(u64, StorageMap<u64, StorageVec<u64>>)")))}

BaseExprs ==
  SubExprs \cup {Literal(t) : t \in TypeIds}
    \cup {Reassignment(Literal(t)) : t \in TypeIds}
    \cup {StorageReassignment(Literal(t)) : t \in TypeIds}

\* Parameters: any type, or a self parameter of a storage-only type.
ParamChoices ==
  {<<t, FALSE>> : t \in TypeIds} \cup {<<TypeNamed("StorageVec<u64>"), TRUE>>}

FnBodies ==
  {<<>>,
   <<Node("Declaration", VariableDecl(Literal(TypeNamed("StorageVec<u64>"))))>>,
   <<Node("Declaration", VariableDecl(Literal(TypeNamed("StorageVec<u64>")))),
     Node("ImplicitReturnExpression",
          Reassignment(Literal(TypeNamed("StorageMap<u64, StorageVec<u64>>"))))>>}

FnDecls ==
  {FnDecl(b, ps, rt) :
     b \in FnBodies, ps \in SeqsUpTo(ParamChoices, MaxMembers), rt \in TypeIds}

ConstDecls == {ConstDecl(<<>>)} \cup {ConstDecl(<<e>>) : e \in BaseExprs}

\* Items of an impl block.
ImplItems ==
  {[item |-> "Fn", decl |-> FnDecl(<<>>, <<>>, TypeNamed("u64"))],
   [item |-> "Fn",
    decl |-> FnDecl(<<>>, <<<<TypeNamed("StorageVec<u64>"), FALSE>>>>, TypeNamed("u64"))],
   [item |-> "Fn", decl |-> FnDecl(<<>>, <<>>, TypeNamed("StorageVec<u64>"))],
   [item |-> "Constant", decl |-> ConstDecl(<<>>)],
   [item |-> "Constant", decl |-> ConstDecl(<<Literal(TypeNamed("u64"))>>)],
   [item |-> "Constant",
    decl |-> ConstDecl(<<Literal(TypeNamed("StorageMap<u64, StorageVec<u64>>"))>>)]}

\* Nodes of code blocks.
BlockNodes ==
  {SideEffect,
   Node("Expression", Literal(TypeNamed("u64"))),
   Node("Expression", Reassignment(Literal(TypeNamed("StorageVec<u64>")))),
   Node("ImplicitReturnExpression",
        StorageReassignment(Literal(TypeNamed("StorageMap<u64, StorageVec<u64>>")))),
   Node("Declaration", VariableDecl(Literal(TypeNamed("u64")))),
   Node("Declaration", VariableDecl(Literal(TypeNamed("StorageVec<u64>")))),
   Node("Declaration", StructDecl(<<TypeNamed("(u64, StorageMap<u64, StorageVec<u64>>)")>>)),
   Node("Declaration",
        [kind |-> "FunctionDecl",
         decl |-> FnDecl(<<>>, <<>>, TypeNamed("StorageVec<u64>"))]),
   Node("Declaration",
        [kind |-> "ConstantDecl",
         decl |-> ConstDecl(<<Literal(TypeNamed("StorageVec<u64>"))>>)]),
   Node("Expression",
        Expr("CodeBlock", TypeNamed("u64"), 0, <<>>,
             <<Node("Declaration", VariableDecl(Literal(TypeNamed("unknown"))))>>))}

CodeBlocks == SeqsUpTo(BlockNodes, MaxNodes)

CompositeExprs ==
  {Expr(k, TypeNamed("u64"), 0, subs, <<>>) :
     k \in ListKinds, subs \in SeqsUpTo(SubExprs, MaxMembers)}
    \cup {Expr(k, TypeNamed("u64"), 0, <<a, b>>, <<>>) :
            k \in {"LazyOperator", "ArrayIndex", "IfExp"}, a \in SubExprs, b \in SubExprs}
    \cup {Expr("IfExp", TypeNamed("u64"), 0, <<a, b, c>>, <<>>) :
            a \in SubExprs, b \in SubExprs, c \in SubExprs}
    \cup {Expr(k, TypeNamed("u64"), 0, <<a>>, <<>>) :
            k \in {"MatchExp", "StructFieldAccess", "TupleElemAccess", "AbiCast",
                   "EnumTag", "UnsafeDowncast", "EnumInstantiation", "Return"},
            a \in SubExprs}
    \cup {Expr("EnumInstantiation", TypeNamed("u64"), 0, <<>>, <<>>)}
    \cup {Expr("CodeBlock", TypeNamed("u64"), 0, <<>>, cb) : cb \in CodeBlocks}
    \cup {Expr("WhileLoop", TypeNamed("u64"), 0, <<c>>, cb) :
            c \in SubExprs, cb \in CodeBlocks}

Exprs ==
  BaseExprs \cup CompositeExprs
    \cup {Expr(k, TypeNamed("u64"), 0, <<>>, <<>>) : k \in LeafKinds}
    \cup {Reassignment(e) : e \in CompositeExprs}

VariantNames == 1..(MaxMembers + 1)

Decls ==
  {VariableDecl(e) : e \in BaseExprs}
    \cup {[kind |-> "ConstantDecl", decl |-> c] : c \in ConstDecls}
    \cup {[kind |-> "FunctionDecl", decl |-> f] : f \in FnDecls}
    \cup {[kind |-> k] :
            k \in {"AbiDecl", "TraitDecl", "GenericTypeForFunctionScope", "ErrorRecovery"}}
    \cup {[kind |-> "ImplTrait", items |-> items] : items \in SeqsUpTo(ImplItems, MaxItems)}
    \cup {StructDecl(tys) : tys \in SeqsUpTo(TypeIds, MaxMembers)}
    \cup {[kind |-> "EnumDecl", variants |-> Variants(tys)] :
            tys \in SeqsUpTo(TypeIds, MaxMembers)}
    \cup {[kind |-> "EnumVariantDecl", variants |-> Variants(tys), variant_name |-> n,
           variant_name_span |-> VariantNameSpan] :
            tys \in SeqsUpTo(TypeIds, MaxMembers), n \in VariantNames}
    \cup {StorageDecl(tys) : tys \in SeqsUpTo(TypeIds, MaxMembers)}
    \cup {[kind |-> "TypeAliasDecl", ty |-> t, span |-> AliasSpan] : t \in TypeIds}

AstNodes ==
  {Node("Expression", e) : e \in Exprs}
    \cup {Node("ImplicitReturnExpression", e) : e \in BaseExprs}
    \cup {Node("Declaration", d) : d \in Decls}
    \cup {SideEffect}

----------------------------------------------------------------------------
Init ==
  /\ op = "none"
  /\ arg = <<>>
  /\ res = ok(Unit, <<>>, <<>>)

\* check_type(engines, ty, span, ignore_self)
CheckType ==
  /\ op = "none"
  /\ \E ty \in TypeIds, span \in Spans, ignore_self \in BOOLEAN :
       /\ op' = "check_type"
       /\ arg' = [ty |-> ty, span |-> span, ignore_self |-> ignore_self]
       /\ res' = check_type(ty, span, ignore_self)

\* validate_decls_for_storage_only_types_in_ast(engines, ast_n)
ValidateAst ==
  /\ op = "none"
  /\ \E ast_n \in AstNodes :
       /\ op' = "validate_ast"
       /\ arg' = ast_n
       /\ res' = validate_decls_for_storage_only_types_in_ast(ast_n)

\* validate_decls_for_storage_only_types_in_codeblock(engines, cb)
ValidateCodeblock ==
  /\ op = "none"
  /\ \E cb \in CodeBlocks :
       /\ op' = "validate_codeblock"
       /\ arg' = cb
       /\ res' = validate_decls_for_storage_only_types_in_codeblock(cb)

\* validate_fn_decl(engines, decl_id)
ValidateFnDecl ==
  /\ op = "none"
  /\ \E decl \in FnDecls :
       /\ op' = "validate_fn_decl"
       /\ arg' = decl
       /\ res' = validate_fn_decl(decl)

\* validate_const_decl(engines, decl_id)
ValidateConstDecl ==
  /\ op = "none"
  /\ \E decl \in ConstDecls :
       /\ op' = "validate_const_decl"
       /\ arg' = decl
       /\ res' = validate_const_decl(decl)

\* The caller takes the result; the pass keeps no state between calls.
Done ==
  /\ op # "none"
  /\ op' = "none"
  /\ arg' = <<>>
  /\ res' = ok(Unit, <<>>, <<>>)

Next ==
  \/ CheckType
  \/ ValidateAst
  \/ ValidateCodeblock
  \/ ValidateFnDecl
  \/ ValidateConstDecl
  \/ Done

Spec == Init /\ [][Next]_vars

----------------------------------------------------------------------------
(* Vocabulary of the properties.                                           *)

\* The description a handle resolves to (the placeholder when it does not).
Resolved(T) == IF TypeTable[T].unknown THEN ErrorRecovery ELSE T

\* The Nested Type Set of T: the types structurally reachable from T, and T.
NestedTypeSet(T) ==
  {TypeTable[Resolved(T)].inner[j] : j \in DOMAIN TypeTable[Resolved(T)].inner}
    \cup {Resolved(T)}

StorageOnlyNested(T) == {N \in NestedTypeSet(T) : TypeTable[N].storage_only}

IsStorageOnlyError(e) == e.kind = "InvalidStorageOnlyTypeDecl"

\* The positions of errors that are storage-only errors.
StorageOnlyErrors(errors) == {i \in DOMAIN errors : IsStorageOnlyError(errors[i])}

\* The number of storage-only errors reported at a span.
ErrorsAt(errors, span) ==
  Cardinality({i \in StorageOnlyErrors(errors) : errors[i].span = span})

\* The number of storage-only errors reported at a span for a type.
ErrorsFor(errors, span, N) ==
  Cardinality({i \in StorageOnlyErrors(errors) :
                 errors[i].span = span /\ errors[i].ty = TypeTable[N].name})

RECURSIVE Flatten(_)
Flatten(seqs) == IF seqs = <<>> THEN <<>> ELSE Head(seqs) \o Flatten(Tail(seqs))

IsDeclaration(kinds) ==
  /\ op = "validate_ast"
  /\ arg.node = "Declaration"
  /\ arg.content.kind \in kinds

----------------------------------------------------------------------------
\* C1: the storage-only errors of check_type(T, S, ignoreSelf) are exactly
\* one per member N of T's Nested Type Set that is storage-only and not
\* (ignoreSelf and N equal to T), each at span S, and there is no other.
C1_CheckTypeErrors ==
  op = "check_type" =>
    /\ \A N \in NestedTypeSet(arg.ty) :
         Cardinality({i \in StorageOnlyErrors(res.errors) :
                        res.errors[i].ty = TypeTable[N].name})
           = IF TypeTable[N].storage_only
                /\ ~(arg.ignore_self /\ N = Resolved(arg.ty))
             THEN 1 ELSE 0
    /\ \A i \in StorageOnlyErrors(res.errors) :
         /\ res.errors[i].span = arg.span
         /\ \E N \in NestedTypeSet(arg.ty) : res.errors[i].ty = TypeTable[N].name

C1_Witness ==
  /\ op = "check_type"
  /\ arg.ignore_self
  /\ TypeTable[arg.ty].storage_only
  /\ Cardinality(StorageOnlyNested(arg.ty)) = 2
  /\ Len(res.errors) = 1

\* C2: in a storage block, a field whose declared type T is storage-only
\* gets no violation for T itself and exactly one violation, at the span of
\* the field's name, for each different storage-only type nested in T; this
\* holds of every field of the block, whatever the fields before it.
C2_StorageFields ==
  IsDeclaration({"StorageDecl"}) =>
    \A f \in DOMAIN arg.content.fields :
      LET field == arg.content.fields[f] IN
      TypeTable[field.type_id].storage_only =>
        /\ ErrorsFor(res.errors, field.name_span, field.type_id) = 0
        /\ \A N \in StorageOnlyNested(field.type_id) \ {field.type_id} :
             ErrorsFor(res.errors, field.name_span, N) = 1
        /\ ErrorsAt(res.errors, field.name_span)
             = Cardinality(StorageOnlyNested(field.type_id) \ {field.type_id})

C2_Witness ==
  /\ IsDeclaration({"StorageDecl"})
  /\ Len(arg.content.fields) = 2
  /\ \A f \in DOMAIN arg.content.fields :
       /\ TypeTable[arg.content.fields[f].type_id].storage_only
       /\ StorageOnlyNested(arg.content.fields[f].type_id)
            # {arg.content.fields[f].type_id}
       /\ ErrorsAt(res.errors, arg.content.fields[f].name_span) = 1
  /\ Len(res.errors) = 2

\* The members the claim C3 is about: the fields of a struct, the variants
\* of an enum, the non-self parameters of a function.
Members ==
  IF op = "validate_fn_decl"
  THEN {p \in {arg.parameters[i] : i \in DOMAIN arg.parameters} : ~p.is_self}
  ELSE IF arg.content.kind = "StructDecl"
  THEN {arg.content.fields[i] : i \in DOMAIN arg.content.fields}
  ELSE {arg.content.variants[i] : i \in DOMAIN arg.content.variants}

MemberCase == op = "validate_fn_decl" \/ IsDeclaration({"StructDecl", "EnumDecl"})

MemberErrors ==
  Cardinality({i \in StorageOnlyErrors(res.errors) :
                 \E m \in Members : res.errors[i].span = m.span})

\* C3 as stated: the number of storage-only errors of the members equals the
\* number of members whose declared type is storage-only, and a struct or
\* enum without such a member is a success with no diagnostics.
C3_OnePerOffendingMember ==
  MemberCase =>
    /\ MemberErrors
         = Cardinality({m \in Members : TypeTable[m.type_id].storage_only})
    /\ (/\ op = "validate_ast"
        /\ \A m \in Members : ~TypeTable[m.type_id].storage_only)
         => (~Failed(res) /\ res.errors = <<>> /\ res.warnings = <<>>)

\* C3 amended: every member is checked, and the number of storage-only errors
\* at a member's span is the number of storage-only types in the Nested Type
\* Set of its declared type (none for a self parameter); a struct or enum
\* whose member types all resolve and nest no storage-only type is a success
\* with no diagnostics.
C3_ErrorsPerMember ==
  MemberCase =>
    /\ \A m \in Members :
         ErrorsAt(res.errors, m.span) = Cardinality(StorageOnlyNested(m.type_id))
    /\ (/\ op = "validate_ast"
        /\ \A m \in Members :
             StorageOnlyNested(m.type_id) = {} /\ ~TypeTable[m.type_id].unknown)
         => (~Failed(res) /\ res.errors = <<>> /\ res.warnings = <<>>)

C3_Witness ==
  /\ op = "validate_fn_decl"
  /\ Len(arg.parameters) = 2
  /\ \A i \in DOMAIN arg.parameters :
       /\ ~arg.parameters[i].is_self
       /\ Cardinality(StorageOnlyNested(arg.parameters[i].type_id)) = 2
       /\ ErrorsAt(res.errors, arg.parameters[i].span) = 2
  /\ MemberErrors = 4

\* C4: validate_fn_decl on a function whose return type is storage-only
\* reports exactly one violation for the return type at its span, returns a
\* failure at once, and keeps the diagnostics of the body and then of the
\* parameters in front of it.
C4_ReturnTypeFatal ==
  (op = "validate_fn_decl" /\ TypeTable[arg.return_type.type_id].storage_only) =>
    /\ ErrorsFor(res.errors, arg.return_type.span, arg.return_type.type_id) = 1
    /\ Failed(res)
    /\ LET before ==
             fn_params_loop(arg.parameters, 1,
               Acc(validate_decls_for_storage_only_types_in_codeblock(arg.body)))
       IN /\ Len(res.errors) > Len(before.errors)
          /\ SubSeq(res.errors, 1, Len(before.errors)) = before.errors

\* C5: the diagnostics of a code block are the diagnostics of its nodes, one
\* node after the other, whatever the outcome of the nodes before.
C5_BlockConcatenation ==
  op = "validate_codeblock" =>
    /\ res.errors = Flatten([i \in DOMAIN arg |-> ast_node_validate(arg[i]).errors])
    /\ res.warnings = Flatten([i \in DOMAIN arg |-> ast_node_validate(arg[i]).warnings])

C5_Witness ==
  /\ op = "validate_codeblock"
  /\ Len(arg) = 2
  /\ Failed(ast_node_validate(arg[1]))
  /\ ast_node_validate(arg[2]).errors # <<>>
  /\ Len(res.errors)
       = Len(ast_node_validate(arg[1]).errors) + Len(ast_node_validate(arg[2]).errors)

\* C6: the result of the declaration validator (and of validate_const_decl)
\* is a failure exactly when it carries an error, and on the early returns it
\* carries the diagnostics of the declaration that failed.
C6_FailureIffErrors ==
  /\ (op = "validate_ast" /\ arg.node = "Declaration") =>
       /\ Failed(res) <=> res.errors # <<>>
       /\ arg.content.kind = "ConstantDecl" =>
            /\ res.errors = validate_const_decl(arg.content.decl).errors
            /\ res.warnings = validate_const_decl(arg.content.decl).warnings
       /\ arg.content.kind = "FunctionDecl" =>
            /\ res.errors = validate_fn_decl(arg.content.decl).errors
            /\ res.warnings = validate_fn_decl(arg.content.decl).warnings
       /\ (/\ arg.content.kind = "EnumVariantDecl"
           /\ \A v \in DOMAIN arg.content.variants :
                arg.content.variants[v].name # arg.content.variant_name)
            => Len(res.errors) = 1 /\ res.errors[1].kind = "UnknownEnumVariant"
  /\ op = "validate_const_decl" => (Failed(res) <=> res.errors # <<>>)

C6_Witness ==
  /\ IsDeclaration({"ConstantDecl"})
  /\ Failed(res)
  /\ Len(res.errors) = 2

C9_FailureIffViolation ==
  op = "check_type" => (Failed(res) <=> StorageOnlyErrors(res.errors) # {})

\* The result of validating one item of an impl block on its own.
ItemResult(item) ==
  IF item.item = "Fn" THEN validate_fn_decl(item.decl)
  ELSE validate_const_decl(item.decl)

\* The position of the first constant item with an error, the length of the
\* list when there is none.
LastVisited(items) ==
  LET stops == {i \in DOMAIN items :
                  items[i].item = "Constant" /\ ItemResult(items[i]).errors # <<>>}
  IN IF stops = {} THEN Len(items)
     ELSE CHOOSE i \in stops : \A j \in stops : i <= j

\* C10: an impl block is walked item by item; a function item with errors
\* does not stop the walk, the first constant item with an error ends it with
\* a failure, and the result holds the diagnostics of the items visited.
C10_ImplItems ==
  IsDeclaration({"ImplTrait"}) =>
    LET items == arg.content.items
        k == LastVisited(items)
    IN /\ res.errors = Flatten([i \in 1..k |-> ItemResult(items[i]).errors])
       /\ k < Len(items) => Failed(res)
       /\ (k = 0 \/ \A i \in 1..k : ItemResult(items[i]).errors = <<>>) => ~Failed(res)

C10_Witness ==
  /\ IsDeclaration({"ImplTrait"})
  /\ Len(arg.content.items) = 3
  /\ arg.content.items[1].item = "Fn"
  /\ ItemResult(arg.content.items[1]).errors # <<>>
  /\ arg.content.items[2].item = "Constant"
  /\ ItemResult(arg.content.items[2]).errors # <<>>
  /\ ItemResult(arg.content.items[3]).errors # <<>>
  /\ Len(res.errors) = Len(ItemResult(arg.content.items[1]).errors)
                         + Len(ItemResult(arg.content.items[2]).errors)
  /\ Failed(res)
====
